---- MODULE Spec2Model ----
(***************************************************************************)
(* State-machine model of src/src/lte-simulation.cc: main() builds an LTE  *)
(* scenario (PGW, remote hosts, eNBs, UEs), assigns addresses, attaches    *)
(* UEs, installs routes, schedules traffic, runs the discrete-event engine *)
(* until the stop time and serialises the flow statistics.                 *)
(*                                                                         *)
(* pc is the position in main(); every loop iteration is one step.         *)
(* Simulated times are integers in tenths of a second (Seconds(0.5) = 5).  *)
(* IPv4 addresses are kept as their four octets.                           *)
(***************************************************************************)
EXTENDS Integers, Sequences, FiniteSets, TLC

VARIABLES
    pc,                     \* position in main()
    status,                 \* "running" | "exited" | "aborted" | "done"
    arg,                    \* the command line (argc, argv)
    simTime,                \* double simTime
    cfgRemote,              \* the count passed to remoteHosts.Create
    i,                      \* the loop counter of the current for loop
    pgw,                    \* TRUE once the EPC helper has made the PGW node
    remoteHosts,            \* remoteHosts.GetN()
    enbs,                   \* enbs.GetN()
    ues,                    \* ues.GetN()
    links,                  \* the remote-host links installed and addressed
    pgwAddressesForRemote,  \* std::vector<Ipv4Address>
    enbPos,                 \* positions given to the eNBs
    ueMobility,             \* mobility model installed on each UE
    waypoints,              \* waypoint list of each UE
    ueIfaces,               \* addresses given by AssignUeIpv4Address
    attached,               \* the (ue, enb) pairs passed to Attach
    routes,                 \* the static routes installed, per node
    flows,                  \* the sink/source pairs installed
    events,                 \* the engine's pending events
    nextUid,                \* insertion counter of the event queue
    now,                    \* Simulator::Now()
    stopped,                \* the engine's stop flag
    executed,               \* the events executed so far, in order
    sinkUp,                 \* flows whose sink has started
    srcUp,                  \* flows whose source is running
    sent,                   \* bytes-sent count per flow (in packets)
    received,               \* bytes-received count per flow (in packets)
    monitors,               \* flow monitors installed
    reports                 \* the reports written to flowmon-lte.xml

vars == << pc, status, arg, simTime, cfgRemote, i, pgw, remoteHosts, enbs, ues,
           links, pgwAddressesForRemote, enbPos, ueMobility, waypoints,
           ueIfaces, attached, routes, flows, events, nextUid, now, stopped,
           executed, sinkUp, srcUp, sent, received, monitors, reports >>

----------------------------------------------------------------------------
(* Program constants.                                                      *)

NumRemoteHosts == 2

NumEnbs == 4

NumUes == 10

DefaultSimTime == 200

BulkSinkStart == 5

BulkStart == 10

WebSinkStart == 15

WebStart == 20

BulkPort == 9000

WebPort == 8000

\* The largest value one component of a dotted-quad address can hold.
MaxOctet == 255

(* Bounds of the model.                                                    *)

\* Packets the sources may send in one run, all flows together.
MaxPackets == 2

\* Values tried for a duration given on the command line.
ArgValues == {50, DefaultSimTime, 300}

NoArg == [form |-> "none", value |-> 0]

\* "--simTime=d" (an option) or "d" (a bare, non-option argument).
Args == {NoArg} \cup [form : {"option", "positional"}, value : ArgValues]

\* Remote-host counts tried when the count is treated as configuration.
HostCounts == {1, NumRemoteHosts, 3, MaxOctet, MaxOctet + 1}

\* Durations tried when the duration is treated as configuration.
SimTimes == {3, 8, 12, 18, 30, DefaultSimTime}

UeIds == 0 .. (NumUes - 1)

----------------------------------------------------------------------------
(* Addresses. An IPv4 address or mask is kept as its four octets.           *)

Ipv4(a, b, c, d) == << a, b, c, d >>

\* Mutant of LinkBaseText: the loop index left out of the base.
LinkBaseTextFixed(k) == << 10, 1, 0, 0 >>

\* std::ostringstream base; base << "10." << (i + 1) << ".0.0"
\* The text is kept as its four decimal fields.
LinkBaseText(k) == << 10, k + 1, 0, 0 >>

\* Ipv4Address(const char*): a field above 255 is no address.
ValidIpv4Text(t) == \A n \in 1 .. 4 : t[n] \in 0 .. MaxOctet

ParseIpv4(t) == Ipv4(t[1], t[2], t[3], t[4])

\* "255.255.0.0"
RemoteMask == Ipv4(255, 255, 0, 0)

\* Ipv4Address ueNetwork("7.0.0.0"); Ipv4Mask ueMask("255.0.0.0")
UeNetwork == Ipv4(7, 0, 0, 0)

UeMask == Ipv4(255, 0, 0, 0)

\* The address with host part h in a network whose last octet is free.
HostAddress(net, h) == [net EXCEPT ![4] = net[4] + h]

\* epcHelper->GetUeDefaultGatewayAddress(): the PGW's address in 7.0.0.0/8.
UeGateway == HostAddress(UeNetwork, 1)

RECURSIVE BitAnd(_, _, _)
\* The bitwise and of the low n bits of x and y.
BitAnd(x, y, n) ==
    IF n = 0 \/ x = 0 \/ y = 0
      THEN 0
      ELSE 2 * BitAnd(x \div 2, y \div 2, n - 1) + ((x % 2) * (y % 2))

\* Ipv4Address::CombineMask
CombineMask(addr, mask) == [n \in 1 .. 4 |-> BitAnd(addr[n], mask[n], 8)]

\* Two (network, mask) blocks share an address exactly when the networks
\* agree on the bits both masks fix.
Overlap(n1, m1, n2, m2) ==
    CombineMask(CombineMask(n1, m1), m2) = CombineMask(CombineMask(n2, m2), m1)

----------------------------------------------------------------------------
(* Initial states.                                                         *)

InitRest ==
    /\ pc = "parse"
    /\ status = "running"
    /\ arg \in Args
    /\ i = 0
    /\ pgw = FALSE
    /\ remoteHosts = 0
    /\ enbs = 0
    /\ ues = 0
    /\ links = << >>
    /\ pgwAddressesForRemote = << >>
    /\ enbPos = << >>
    /\ ueMobility = [u \in UeIds |-> "none"]
    /\ waypoints = [u \in UeIds |-> << >>]
    /\ ueIfaces = << >>
    /\ attached = {}
    /\ routes = {}
    /\ flows = << >>
    /\ events = {}
    /\ nextUid = 0
    /\ now = 0
    /\ stopped = FALSE
    /\ executed = << >>
    /\ sinkUp = {}
    /\ srcUp = {}
    /\ sent = << >>
    /\ received = << >>
    /\ monitors = 0
    /\ reports = << >>

\* The program as written: simTime = 20.0, remoteHosts.Create(2).
Init ==
    /\ simTime = DefaultSimTime
    /\ cfgRemote = NumRemoteHosts
    /\ InitRest

\* The remote-host count as configuration.
InitTopo ==
    /\ simTime = DefaultSimTime
    /\ cfgRemote \in HostCounts
    /\ InitRest
    /\ arg = NoArg

\* The initial value of simTime as configuration.
InitDur ==
    /\ simTime \in SimTimes
    /\ cfgRemote = NumRemoteHosts
    /\ InitRest

----------------------------------------------------------------------------
(* Setup: command line, helpers, remote hosts and their links.             *)

\* CommandLine cmd; cmd.Parse(argc, argv): no value is registered with cmd,
\* so an option is unknown to it (usage is printed, exit status 1) and a
\* non-option argument is kept as an extra argument nobody reads.
ParseArgs ==
    /\ pc = "parse"
    /\ pc' = IF arg.form = "option" THEN "end" ELSE "helpers"
    /\ status' = IF arg.form = "option" THEN "exited" ELSE status
    /\ UNCHANGED << arg, simTime, cfgRemote, i, pgw, remoteHosts, enbs, ues,
                    links, pgwAddressesForRemote, enbPos, ueMobility, waypoints,
                    ueIfaces, attached, routes, flows, events, nextUid, now,
                    stopped, executed, sinkUp, srcUp, sent, received, monitors,
                    reports >>

\* CreateObject<PointToPointEpcHelper>() makes the PGW node.
CreateHelpers ==
    /\ pc = "helpers"
    /\ pgw' = TRUE
    /\ pc' = "createRemote"
    /\ UNCHANGED << status, arg, simTime, cfgRemote, i, remoteHosts, enbs, ues,
                    links, pgwAddressesForRemote, enbPos, ueMobility, waypoints,
                    ueIfaces, attached, routes, flows, events, nextUid, now,
                    stopped, executed, sinkUp, srcUp, sent, received, monitors,
                    reports >>

\* remoteHosts.Create(2); internet.Install(remoteHosts); p2p attributes.
CreateRemoteHosts ==
    /\ pc = "createRemote"
    /\ remoteHosts' = cfgRemote
    /\ i' = 0
    /\ pc' = "linkLoop"
    /\ UNCHANGED << status, arg, simTime, cfgRemote, pgw, enbs, ues,
                    links, pgwAddressesForRemote, enbPos, ueMobility, waypoints,
                    ueIfaces, attached, routes, flows, events, nextUid, now,
                    stopped, executed, sinkUp, srcUp, sent, received, monitors,
                    reports >>

\* remoteAddrHelper.SetBase(base, "255.255.0.0"); Assign(link): the helper
\* restarts at host part 0.0.0.1 and numbers the devices of the container in
\* order: the PGW's device first, the remote host's second.
AssignLink(k) ==
    LET net == ParseIpv4(LinkBaseText(k))
    IN  [ host     |-> k,
          network  |-> net,
          mask     |-> RemoteMask,
          pgwAddr  |-> HostAddress(net, 1),
          hostAddr |-> HostAddress(net, 2) ]

\* ifc.GetAddress(0)
PgwSideAddress(ifc) == ifc.pgwAddr

\* One iteration of for (i = 0; i < remoteHosts.GetN(); ++i). A base that
\* is no dotted quad aborts the program inside SetBase.
InstallLink ==
    /\ pc = "linkLoop"
    /\ IF i < remoteHosts
         THEN IF ValidIpv4Text(LinkBaseText(i))
                THEN /\ links' = Append(links, AssignLink(i))
                     /\ pgwAddressesForRemote' =
                            Append(pgwAddressesForRemote,
                                   PgwSideAddress(AssignLink(i)))
                     /\ i' = i + 1
                     /\ UNCHANGED << pc, status >>
                ELSE /\ pc' = "end"
                     /\ status' = "aborted"
                     /\ UNCHANGED << links, pgwAddressesForRemote, i >>
         ELSE /\ pc' = "createRan"
              /\ UNCHANGED << links, pgwAddressesForRemote, i, status >>
    /\ UNCHANGED << arg, simTime, cfgRemote, pgw, remoteHosts, enbs, ues,
                    enbPos, ueMobility, waypoints,
                    ueIfaces, attached, routes, flows, events, nextUid, now,
                    stopped, executed, sinkUp, srcUp, sent, received, monitors,
                    reports >>

----------------------------------------------------------------------------
(* Setup: eNBs, UEs, mobility, attachment.                                 *)

Rest1 == << status, arg, simTime, cfgRemote, pgw, remoteHosts, links,
            pgwAddressesForRemote >>

Rest2 == << flows, events, nextUid, now, stopped, executed, sinkUp, srcUp,
            sent, received, monitors, reports >>

\* enbs.Create(4); ues.Create(10); internet.Install(ues)
CreateRan ==
    /\ pc = "createRan"
    /\ enbs' = NumEnbs
    /\ ues' = NumUes
    /\ pc' = "enbMobility"
    /\ UNCHANGED << i, enbPos, ueMobility, waypoints, ueIfaces, attached,
                    routes >>
    /\ UNCHANGED Rest1
    /\ UNCHANGED Rest2

\* enbPos->Add(Vector(...)), four times.
EnbPositions ==
    << << 0, 0, 20 >>, << 200, 0, 20 >>, << 0, 200, 20 >>, << 200, 200, 20 >> >>

\* enbMobility.Install(enbs): constant positions, taken from the list in order.
InstallEnbMobility ==
    /\ pc = "enbMobility"
    /\ enbPos' = [k \in 1 .. enbs |-> EnbPositions[k]]
    /\ i' = 0
    /\ pc' = "walkLoop"
    /\ UNCHANGED << enbs, ues, ueMobility, waypoints, ueIfaces, attached,
                    routes >>
    /\ UNCHANGED Rest1
    /\ UNCHANGED Rest2

\* One iteration of for (int i = 0; i < 5; ++i): RandomWalk2dMobilityModel.
InstallWalk ==
    /\ pc = "walkLoop"
    /\ IF i < 5
         THEN /\ ueMobility' = [ueMobility EXCEPT ![i] = "RandomWalk2d"]
              /\ i' = i + 1
              /\ pc' = pc
         ELSE /\ i' = 5
              /\ pc' = "waypointLoop"
              /\ UNCHANGED ueMobility
    /\ UNCHANGED << enbs, ues, enbPos, waypoints, ueIfaces, attached, routes >>
    /\ UNCHANGED Rest1
    /\ UNCHANGED Rest2

\* Mutant of CarWaypoints: a fifth waypoint back at the first position.
CarWaypointsClosed ==
    << [time |-> 0,   pos |-> << 10, 10, 0 >>],
       [time |-> 50,  pos |-> << 150, 10, 0 >>],
       [time |-> 100, pos |-> << 150, 150, 0 >>],
       [time |-> 150, pos |-> << 10, 150, 0 >>],
       [time |-> 200, pos |-> << 10, 10, 0 >>] >>

\* The four wp->AddWaypoint(Waypoint(Seconds(t), Vector(x, y, 0))) calls.
CarWaypoints ==
    << [time |-> 0,   pos |-> << 10, 10, 0 >>],
       [time |-> 50,  pos |-> << 150, 10, 0 >>],
       [time |-> 100, pos |-> << 150, 150, 0 >>],
       [time |-> 150, pos |-> << 10, 150, 0 >>] >>

\* One iteration of for (int i = 5; i < 10; ++i): WaypointMobilityModel.
InstallWaypoints ==
    /\ pc = "waypointLoop"
    /\ IF i < 10
         THEN /\ ueMobility' = [ueMobility EXCEPT ![i] = "Waypoint"]
              /\ waypoints' = [waypoints EXCEPT ![i] = @ \o CarWaypoints]
              /\ i' = i + 1
              /\ pc' = pc
         ELSE /\ pc' = "lteInstall"
              /\ UNCHANGED << ueMobility, waypoints, i >>
    /\ UNCHANGED << enbs, ues, enbPos, ueIfaces, attached, routes >>
    /\ UNCHANGED Rest1
    /\ UNCHANGED Rest2

\* epcHelper->AssignUeIpv4Address(ueDevs): the PGW holds 7.0.0.1, the UEs
\* get 7.0.0.2 onwards in device order.
AssignUeIpv4Address(n) == [k \in 1 .. n |-> HostAddress(UeNetwork, k + 1)]

\* InstallEnbDevice, InstallUeDevice, AssignUeIpv4Address.
InstallLte ==
    /\ pc = "lteInstall"
    /\ ueIfaces' = AssignUeIpv4Address(ues)
    /\ i' = 0
    /\ pc' = "attachLoop"
    /\ UNCHANGED << enbs, ues, enbPos, ueMobility, waypoints, attached,
                    routes >>
    /\ UNCHANGED Rest1
    /\ UNCHANGED Rest2

\* Mutant of AttachTarget: division written for the remainder.
AttachTargetDiv(u) == u \div enbs

\* Mutant of AttachTarget: the index off by one.
AttachTargetNext(u) == (u + 1) % enbs

\* enbDevs.Get(i % enbs.GetN())
AttachTarget(u) == u % enbs

\* One iteration of for (i = 0; i < ues.GetN(); ++i): lteHelper->Attach.
AttachUe ==
    /\ pc = "attachLoop"
    /\ IF i < ues
         THEN /\ attached' = attached \cup { << i, AttachTarget(i) >> }
              /\ i' = i + 1
              /\ pc' = pc
         ELSE /\ i' = 0
              /\ pc' = "ueRoutes"
              /\ UNCHANGED attached
    /\ UNCHANGED << enbs, ues, enbPos, ueMobility, waypoints, ueIfaces,
                    routes >>
    /\ UNCHANGED Rest1
    /\ UNCHANGED Rest2

----------------------------------------------------------------------------
(* Setup: routing.                                                         *)

AnyAddress == Ipv4(0, 0, 0, 0)

\* ueStatic->SetDefaultRoute(ueGateway, 1)
UeDefaultRoute(u) ==
    [ node    |-> << "ue", u >>,
      dest    |-> AnyAddress,
      mask    |-> AnyAddress,
      nextHop |-> UeGateway,
      iface   |-> 1 ]

\* One iteration of the UE default-route loop.
SetUeRoute ==
    /\ pc = "ueRoutes"
    /\ IF i < ues
         THEN /\ routes' = routes \cup { UeDefaultRoute(i) }
              /\ i' = i + 1
              /\ pc' = pc
         ELSE /\ i' = 0
              /\ pc' = "rhRoutes"
              /\ UNCHANGED routes
    /\ UNCHANGED << enbs, ues, enbPos, ueMobility, waypoints, ueIfaces,
                    attached >>
    /\ UNCHANGED Rest1
    /\ UNCHANGED Rest2

\* Mutant of RemoteNextHop: every host routed via the first link's address.
RemoteNextHopFirst(k) == pgwAddressesForRemote[1]

\* pgwAddressesForRemote[i]
RemoteNextHop(k) == pgwAddressesForRemote[k + 1]

\* rhStatic->AddNetworkRouteTo(ueNetwork, ueMask, pgwAddressesForRemote[i], 1)
RemoteRoute(k) ==
    [ node    |-> << "rh", k >>,
      dest    |-> UeNetwork,
      mask    |-> UeMask,
      nextHop |-> RemoteNextHop(k),
      iface   |-> 1 ]

\* One iteration of the remote-host route loop.
AddRemoteRoute ==
    /\ pc = "rhRoutes"
    /\ IF i < remoteHosts
         THEN /\ routes' = routes \cup { RemoteRoute(i) }
              /\ i' = i + 1
              /\ pc' = pc
         ELSE /\ i' = 0
              /\ pc' = "bulkLoop"
              /\ UNCHANGED routes
    /\ UNCHANGED << enbs, ues, enbPos, ueMobility, waypoints, ueIfaces,
                    attached >>
    /\ UNCHANGED Rest1
    /\ UNCHANGED Rest2

----------------------------------------------------------------------------
(* Setup: applications and flow monitors.                                  *)

Rest3 == << enbs, ues, enbPos, ueMobility, waypoints, ueIfaces, attached,
            routes >>

\* Seconds(simTime)
StopTime == simTime

\* Mutant of BulkFlow: the sink started with the bursty sinks' time.
BulkFlowLateSink(k) ==
    [ kind      |-> "Bulk",
      transport |-> "Tcp",
      srcHost   |-> 0,
      sinkNode  |-> k,
      dstAddr   |-> ueIfaces[k + 1],
      port      |-> BulkPort,
      sinkStart |-> WebSinkStart,
      start     |-> BulkStart,
      stop      |-> StopTime ]

\* PacketSinkHelper on ues.Get(k), started at 0.5 s; BulkSendHelper towards
\* ueIfaces.GetAddress(k) on remoteHosts.Get(0), started at 1.0 s and
\* stopped at simTime.
BulkFlow(k) ==
    [ kind      |-> "Bulk",
      transport |-> "Tcp",
      srcHost   |-> 0,
      sinkNode  |-> k,
      dstAddr   |-> ueIfaces[k + 1],
      port      |-> BulkPort,
      sinkStart |-> BulkSinkStart,
      start     |-> BulkStart,
      stop      |-> StopTime ]

\* Mutant of WebFlow: the source installed on remote host 0.
WebFlowFromHost0(k) ==
    [ kind      |-> "OnOff",
      transport |-> "Udp",
      srcHost   |-> 0,
      sinkNode  |-> k,
      dstAddr   |-> ueIfaces[k + 1],
      port      |-> WebPort,
      sinkStart |-> WebSinkStart,
      start     |-> WebStart,
      stop      |-> StopTime ]

\* PacketSinkHelper on ues.Get(k), started at 1.5 s; OnOffHelper towards
\* ueIfaces.GetAddress(k) on remoteHosts.Get(1), started at 2.0 s and
\* stopped at simTime.
WebFlow(k) ==
    [ kind      |-> "OnOff",
      transport |-> "Udp",
      srcHost   |-> 1,
      sinkNode  |-> k,
      dstAddr   |-> ueIfaces[k + 1],
      port      |-> WebPort,
      sinkStart |-> WebSinkStart,
      start     |-> WebStart,
      stop      |-> StopTime ]

\* sinks.Start, apps.Start, apps.Stop: the three events of flow f, queued in
\* the order of the calls.
FlowEvents(f, fl, uid) ==
    { [time |-> fl.sinkStart, uid |-> uid,     kind |-> "SinkStart",   flow |-> f],
      [time |-> fl.start,     uid |-> uid + 1, kind |-> "SourceStart", flow |-> f],
      [time |-> fl.stop,      uid |-> uid + 2, kind |-> "SourceStop",  flow |-> f] }

\* The body shared by the two application loops.
InstallFlow(fl) ==
    /\ flows' = Append(flows, fl)
    /\ events' = events \cup FlowEvents(Len(flows) + 1, fl, nextUid)
    /\ nextUid' = nextUid + 3
    /\ sent' = Append(sent, 0)
    /\ received' = Append(received, 0)

\* One iteration of for (int i = 0; i < 5; ++i): BulkSend.
InstallBulk ==
    /\ pc = "bulkLoop"
    /\ IF i < 5
         THEN /\ InstallFlow(BulkFlow(i))
              /\ i' = i + 1
              /\ pc' = pc
         ELSE /\ i' = 5
              /\ pc' = "webLoop"
              /\ UNCHANGED << flows, events, nextUid, sent, received >>
    /\ UNCHANGED << now, stopped, executed, sinkUp, srcUp, monitors, reports >>
    /\ UNCHANGED Rest1
    /\ UNCHANGED Rest3

\* One iteration of for (int i = 5; i < 10; ++i): OnOff.
InstallWeb ==
    /\ pc = "webLoop"
    /\ IF i < 10
         THEN /\ InstallFlow(WebFlow(i))
              /\ i' = i + 1
              /\ pc' = pc
         ELSE /\ pc' = "monitor1"
              /\ UNCHANGED << i, flows, events, nextUid, sent, received >>
    /\ UNCHANGED << now, stopped, executed, sinkUp, srcUp, monitors, reports >>
    /\ UNCHANGED Rest1
    /\ UNCHANGED Rest3

\* Simulator::Stop(Seconds(simTime)): a stop event, simTime from now.
StopEvent(uid) ==
    [time |-> now + StopTime, uid |-> uid, kind |-> "SimStop", flow |-> 0]

\* fmHelper.InstallAll(); Simulator::Stop(Seconds(simTime));
InstallMonitor1 ==
    /\ pc = "monitor1"
    /\ monitors' = monitors + 1
    /\ events' = events \cup { StopEvent(nextUid) }
    /\ nextUid' = nextUid + 1
    /\ pc' = "monitor2"
    /\ UNCHANGED << i, flows, now, stopped, executed, sinkUp, srcUp, sent,
                    received, reports >>
    /\ UNCHANGED Rest1
    /\ UNCHANGED Rest3

\* fm.InstallAll(); Simulator::Stop(Seconds(simTime)); a second time.
InstallMonitor2 ==
    /\ pc = "monitor2"
    /\ monitors' = monitors + 1
    /\ events' = events \cup { StopEvent(nextUid) }
    /\ nextUid' = nextUid + 1
    /\ pc' = "run"
    /\ UNCHANGED << i, flows, now, stopped, executed, sinkUp, srcUp, sent,
                    received, reports >>
    /\ UNCHANGED Rest1
    /\ UNCHANGED Rest3

----------------------------------------------------------------------------
(* Simulator::Run(), the report, Simulator::Destroy().                     *)

\* The engine's order: by timestamp, then by insertion.
Earlier(e1, e2) ==
    \/ e1.time < e2.time
    \/ e1.time = e2.time /\ e1.uid < e2.uid

NextEvent == CHOOSE e \in events : \A o \in events \ {e} : Earlier(e, o)

\* Mutant of RunContinues: the stop flag ignored.
RunIgnoresStop == events # {}

\* Run() goes on while events are pending and no stop event has run.
RunContinues == events # {} /\ ~stopped

\* One turn of the engine's loop: the earliest pending event is executed.
RunStep ==
    /\ pc = "run"
    /\ IF RunContinues
         THEN LET e == NextEvent
              IN  /\ events' = events \ {e}
                  /\ now' = e.time
                  /\ executed' = Append(executed, e)
                  /\ sinkUp' = IF e.kind = "SinkStart"
                                 THEN sinkUp \cup {e.flow} ELSE sinkUp
                  /\ srcUp' = CASE e.kind = "SourceStart" -> srcUp \cup {e.flow}
                                [] e.kind = "SourceStop"  -> srcUp \ {e.flow}
                                [] OTHER                  -> srcUp
                  /\ stopped' = IF e.kind = "SimStop" THEN TRUE ELSE stopped
                  /\ pc' = pc
         ELSE /\ pc' = "report"
              /\ UNCHANGED << events, now, executed, sinkUp, srcUp, stopped >>
    /\ UNCHANGED << i, flows, nextUid, sent, received, monitors, reports >>
    /\ UNCHANGED Rest1
    /\ UNCHANGED Rest3

RECURSIVE Total(_)
Total(s) == IF s = << >> THEN 0 ELSE Head(s) + Total(Tail(s))

\* A running source hands one packet to the network.
Transmit(f) ==
    /\ pc = "run"
    /\ RunContinues
    /\ f \in srcUp
    /\ Total(sent) < MaxPackets
    /\ sent' = [sent EXCEPT ![f] = @ + 1]
    /\ UNCHANGED << pc, i, flows, events, nextUid, now, stopped, executed,
                    sinkUp, srcUp, received, monitors, reports >>
    /\ UNCHANGED Rest1
    /\ UNCHANGED Rest3

\* A started sink receives one packet that is in flight.
Deliver(f) ==
    /\ pc = "run"
    /\ RunContinues
    /\ f \in sinkUp
    /\ received[f] < sent[f]
    /\ received' = [received EXCEPT ![f] = @ + 1]
    /\ UNCHANGED << pc, i, flows, events, nextUid, now, stopped, executed,
                    sinkUp, srcUp, sent, monitors, reports >>
    /\ UNCHANGED Rest1
    /\ UNCHANGED Rest3

\* What the monitor holds for each flow.
FlowStats == [f \in 1 .. Len(flows) |-> [sent |-> sent[f], received |-> received[f]]]

\* monitor->CheckForLostPackets(); monitor->SerializeToXmlFile(...)
WriteReport ==
    /\ pc = "report"
    /\ reports' = Append(reports, FlowStats)
    /\ pc' = "destroy"
    /\ UNCHANGED << i, flows, events, nextUid, now, stopped, executed, sinkUp,
                    srcUp, sent, received, monitors >>
    /\ UNCHANGED Rest1
    /\ UNCHANGED Rest3

\* Simulator::Destroy(); return 0;
Destroy ==
    /\ pc = "destroy"
    /\ events' = {}
    /\ pc' = "end"
    /\ status' = "done"
    /\ UNCHANGED << arg, simTime, cfgRemote, pgw, remoteHosts, links,
                    pgwAddressesForRemote >>
    /\ UNCHANGED << i, flows, nextUid, now, stopped, executed, sinkUp, srcUp,
                    sent, received, monitors, reports >>
    /\ UNCHANGED Rest3

----------------------------------------------------------------------------
(* Specifications.                                                         *)

Next ==
    \/ ParseArgs
    \/ CreateHelpers
    \/ CreateRemoteHosts
    \/ InstallLink
    \/ CreateRan
    \/ InstallEnbMobility
    \/ InstallWalk
    \/ InstallWaypoints
    \/ InstallLte
    \/ AttachUe
    \/ SetUeRoute
    \/ AddRemoteRoute
    \/ InstallBulk
    \/ InstallWeb
    \/ InstallMonitor1
    \/ InstallMonitor2
    \/ RunStep
    \/ \E f \in 1 .. Len(flows) : Transmit(f)
    \/ \E f \in 1 .. Len(flows) : Deliver(f)
    \/ WriteReport
    \/ Destroy

\* The program as written.
Spec == Init /\ [][Next]_vars

\* The program with the initial value of simTime as configuration.
SpecDur == InitDur /\ [][Next]_vars

\* The remote-host links, with the remote-host count as configuration.
NextTopo == ParseArgs \/ CreateHelpers \/ CreateRemoteHosts \/ InstallLink

SpecTopo == InitTopo /\ [][NextTopo]_vars

----------------------------------------------------------------------------
(* Positions in main().                                                    *)

PcOrder ==
    << "parse", "helpers", "createRemote", "linkLoop", "createRan",
       "enbMobility", "walkLoop", "waypointLoop", "lteInstall", "attachLoop",
       "ueRoutes", "rhRoutes", "bulkLoop", "webLoop", "monitor1", "monitor2",
       "run", "report", "destroy", "end" >>

Rank(l) == CHOOSE n \in 1 .. Len(PcOrder) : PcOrder[n] = l

\* main() has left the step labelled l behind and has not exited early.
After(l) == Rank(pc) > Rank(l) /\ status \in {"running", "done"}

----------------------------------------------------------------------------
(* C3. The blocks of the remote-host links.                                *)

\* C3: for every remote-host count from 1 to 255, link i holds the block
\* 10.(i+1).0.0/16, no two links' blocks overlap, and no link's block
\* overlaps the UE address space 7.0.0.0/8.
C3_LinkBlocksDisjoint ==
    /\ \A a \in 1 .. Len(links) :
          /\ links[a].network = << 10, a, 0, 0 >>
          /\ links[a].mask = << 255, 255, 0, 0 >>
          /\ ~Overlap(links[a].network, links[a].mask, UeNetwork, UeMask)
    \* the link just added against every earlier one
    /\ \A a \in 1 .. (Len(links) - 1) :
          ~Overlap(links[a].network, links[a].mask,
                   links[Len(links)].network, links[Len(links)].mask)
    \* all pairs, once the loop has ended
    /\ After("linkLoop") =>
          /\ Len(links) = cfgRemote
          /\ \A a \in 1 .. Len(links) : \A b \in (a + 1) .. Len(links) :
                ~Overlap(links[a].network, links[a].mask,
                         links[b].network, links[b].mask)

\* The loop has ended with the largest count the blocks allow.
C3_Witness ==
    /\ pc = "createRan"
    /\ cfgRemote = MaxOctet
    /\ Len(links) = MaxOctet
    /\ links[MaxOctet].network = << 10, 255, 0, 0 >>

----------------------------------------------------------------------------
(* C4. Too many remote hosts.                                              *)

----------------------------------------------------------------------------
(* C1, C2. Attachment.                                                     *)

\* The access points UE u has been attached to.
AttachedTo(u) == { e \in 0 .. (NumEnbs - 1) : << u, e >> \in attached }

\* C1: after setup every UE i has exactly one association, and it is with
\* access point i mod M.
C1_RoundRobin ==
    After("attachLoop") =>
        /\ attached \subseteq (0 .. (NumUes - 1)) \X (0 .. (NumEnbs - 1))
        /\ \A u \in 0 .. (NumUes - 1) : AttachedTo(u) = { u % NumEnbs }

\* The attach loop has ended, its last UE on access point 9 mod 4.
C1_Witness ==
    /\ pc = "ueRoutes"
    /\ ues = NumUes
    /\ << 9, 1 >> \in attached

\* C2 as stated: with 4 access points and 10 UEs, UE 0 and UE 5 are both
\* associated with access point 0.
C2_Ue0AndUe5OnAp0 ==
    After("attachLoop") => (<< 0, 0 >> \in attached /\ << 5, 0 >> \in attached)

\* C2 amended: with 4 access points and 10 UEs, UE 0 is associated with
\* access point 0 and UE 5 with access point 1.
C2_Ue0OnAp0Ue5OnAp1 ==
    After("attachLoop") =>
        /\ enbs = 4
        /\ ues = 10
        /\ AttachedTo(0) = {0}
        /\ AttachedTo(5) = {1}

\* Setup has attached UE 5.
C2_Witness ==
    /\ After("attachLoop")
    /\ \E e \in 0 .. (NumEnbs - 1) : << 5, e >> \in attached

----------------------------------------------------------------------------
(* C5. Routes.                                                             *)

RoutesOf(n) == { r \in routes : r.node = n }

\* C5: when setup completes every UE has one default route, via the
\* gateway's UE-facing address, and remote host i has one route, to
\* 7.0.0.0/8, via the gateway-side address of its own link and of no other.
C5_Routes ==
    After("rhRoutes") =>
        /\ \A u \in 0 .. (NumUes - 1) :
              RoutesOf(<< "ue", u >>) =
                 { [ node |-> << "ue", u >>, dest |-> << 0, 0, 0, 0 >>,
                     mask |-> << 0, 0, 0, 0 >>, nextHop |-> << 7, 0, 0, 1 >>,
                     iface |-> 1 ] }
        /\ \A k \in 0 .. (remoteHosts - 1) :
              /\ RoutesOf(<< "rh", k >>) =
                    { [ node |-> << "rh", k >>, dest |-> << 7, 0, 0, 0 >>,
                        mask |-> << 255, 0, 0, 0 >>,
                        nextHop |-> links[k + 1].pgwAddr, iface |-> 1 ] }
              /\ links[k + 1].host = k
              /\ \A j \in 0 .. (remoteHosts - 1) : \A r \in RoutesOf(<< "rh", k >>) :
                    j # k => r.nextHop \notin { links[j + 1].pgwAddr,
                                               links[j + 1].hostAddr }

\* Setup has gone past routing with the second host routed via 10.2.0.1.
C5_Witness ==
    /\ After("rhRoutes")
    /\ \E r \in routes : r.node = << "rh", 1 >> /\ r.nextHop = << 10, 2, 0, 1 >>
    /\ \E r \in routes : r.node = << "ue", 9 >>

----------------------------------------------------------------------------
(* C6. The duration and the command line.                                  *)

\* The duration the command line asks for.
RequestedDuration == IF arg.form = "none" THEN DefaultSimTime ELSE arg.value

\* C6: the simulator's stop time and every source's stop time equal the
\* duration given on the command line, and 20.0 when none is given.
C6_DurationFromCommandLine ==
    /\ \A f \in 1 .. Len(flows) : flows[f].stop = RequestedDuration
    /\ \A e \in events : e.kind = "SimStop" => e.time = RequestedDuration

----------------------------------------------------------------------------
(* C7. Sinks before sources.                                               *)

\* C7: every flow's sink starts strictly before its source, and in every
\* run the sink-start event of a flow is executed before its source-start
\* event.
C7_SinkBeforeSource ==
    /\ \A f \in 1 .. Len(flows) : flows[f].sinkStart < flows[f].start
    /\ \A n \in 1 .. Len(executed) :
          executed[n].kind = "SourceStart" =>
             \E m \in 1 .. (n - 1) :
                /\ executed[m].kind = "SinkStart"
                /\ executed[m].flow = executed[n].flow

\* The source of a bulk flow and the source of a bursty flow have started.
C7_Witness ==
    /\ \E n \in 1 .. Len(executed) :
          executed[n].kind = "SourceStart" /\ flows[executed[n].flow].kind = "Bulk"
    /\ \E n \in 1 .. Len(executed) :
          executed[n].kind = "SourceStart" /\ flows[executed[n].flow].kind = "OnOff"

----------------------------------------------------------------------------
(* C8. The traffic classes.                                                *)

\* The flows that end at UE u, by sink node or by destination address.
FlowsTo(u) ==
    { f \in 1 .. Len(flows) :
         flows[f].sinkNode = u \/ flows[f].dstAddr = ueIfaces[u + 1] }

\* C8: every UE is the destination of exactly one flow; UEs 0..4 get bulk
\* flows from remote host 0 only, UEs 5..9 bursty flows from remote host 1
\* only; no remote host sends both classes.
C8_ClassPartition ==
    After("webLoop") =>
        /\ \A u \in 0 .. (NumUes - 1) :
              /\ Cardinality(FlowsTo(u)) = 1
              /\ \A f \in FlowsTo(u) :
                    /\ flows[f].sinkNode = u
                    /\ flows[f].dstAddr = ueIfaces[u + 1]
                    /\ u \in 0 .. 4 =>
                          /\ flows[f].kind = "Bulk"
                          /\ flows[f].transport = "Tcp"
                          /\ flows[f].srcHost = 0
                    /\ u \in 5 .. 9 =>
                          /\ flows[f].kind = "OnOff"
                          /\ flows[f].transport = "Udp"
                          /\ flows[f].srcHost = 1
        /\ \A f, g \in 1 .. Len(flows) :
              flows[f].srcHost = flows[g].srcHost => flows[f].kind = flows[g].kind

\* Both application loops have ended: ten flows.
C8_Witness ==
    /\ After("webLoop")
    /\ Len(flows) = NumUes

----------------------------------------------------------------------------
(* C9. Stopping and the report.                                            *)

\* C9: no event stamped later than the stop time is executed and none is
\* executed once the stop event has run; the report is written once, after
\* the run, from the counts gathered; a flow that starts after the stop time
\* is reported with zero sent and received, and the run ends without error.
C9_StopAndReport ==
    /\ \A n \in 1 .. Len(executed) :
          /\ executed[n].time <= StopTime
          /\ executed[n].kind = "SimStop" => n = Len(executed)
    /\ Len(reports) <= 1
    /\ Len(reports) = 1 => pc \in {"destroy", "end"}
    /\ status # "aborted"
    /\ status = "done" =>
          /\ Len(reports) = 1
          /\ reports[1] = FlowStats
          /\ \A f \in 1 .. Len(flows) :
                flows[f].start > StopTime =>
                   reports[1][f] = [sent |-> 0, received |-> 0]

\* A run stopped at 1.2 s has ended: a bulk flow sent, a bursty flow, due to
\* start at 2.0 s, never started.
C9_Witness ==
    /\ status = "done"
    /\ StopTime = 12
    /\ flows[6].start > StopTime
    /\ reports[1][1].sent > 0
    /\ reports[1][6].sent = 0

----------------------------------------------------------------------------
(* C10. The waypoints.                                                     *)

\* C10 as stated: the waypoint list of each of UEs 5..9 is a closed loop:
\* its last position is its first.
C10_ClosedLoop ==
    After("waypointLoop") =>
        \A u \in 5 .. 9 :
           /\ waypoints[u] # << >>
           /\ waypoints[u][Len(waypoints[u])].pos = waypoints[u][1].pos

\* C10 amended: the waypoint list of each of UEs 5..9 is the open path
\* (10,10), (150,10), (150,150), (10,150) at 0, 5, 10 and 15 s; its last
\* position is not its first.
C10_OpenPath ==
    After("waypointLoop") =>
        \A u \in 5 .. 9 :
           /\ Len(waypoints[u]) = 4
           /\ \A n \in 1 .. 3 : waypoints[u][n].time < waypoints[u][n + 1].time
           /\ << waypoints[u][1].pos, waypoints[u][2].pos,
                 waypoints[u][3].pos, waypoints[u][4].pos >>
                = << << 10, 10, 0 >>, << 150, 10, 0 >>,
                     << 150, 150, 0 >>, << 10, 150, 0 >> >>
           /\ waypoints[u][Len(waypoints[u])].pos # waypoints[u][1].pos

\* The waypoint loop has ended and UE 9 holds its waypoints.
C10_Witness ==
    /\ After("waypointLoop")
    /\ ueMobility[9] = "Waypoint"
    /\ waypoints[9] # << >>

====
